---- MODULE Spec2Model ----
(***************************************************************************)
(* Model of the task API (src/index.js): an express router whose handlers  *)
(* each hand one parameterized SQL statement on the "tasks" table to the   *)
(* connection pool, await it, and turn its result, or the rejection of     *)
(* pool.query, into one JSON response.                                     *)
(*                                                                         *)
(* JavaScript values (request body fields, row fields of result.rows) are  *)
(* records [type, val]; val is the text of the value.                      *)
(*                                                                         *)
(* A request that reaches pool.query is handled in three steps: the        *)
(* handler runs up to its await, the database runs the statement, and the  *)
(* handler's continuation answers.  Requests of other clients may take     *)
(* their steps in between.  Each client has one request outstanding.       *)
(* pool.query may reject although the statement has run: each statement    *)
(* commits on its own and no handler undoes anything.                      *)
(***************************************************************************)
EXTENDS Integers, FiniteSets, Sequences, TLC

VARIABLES tasks,     \* the rows of the tasks table
          nextId,    \* next value of the sequence behind tasks.id
          phase,     \* per client: "idle", "awaiting" (statement handed to
                     \* the pool) or "settled" (pool.query has settled)
          req,       \* per client: its request, the last one once answered
          outcome,   \* per client: what pool.query settled with
          resp,      \* per client: the response (sent = number of responses)
          created,   \* ids returned by POST /tasks with 201 so far
          deleted,   \* ids returned by DELETE /tasks/:id with 200 so far
          inserted,  \* ids of the rows the INSERTs that ran have stored
          removed    \* ids of the rows the DELETEs that ran have removed

vars == <<tasks, nextId, phase, req, outcome, resp, created, deleted,
          inserted, removed>>

\* Number of rows the sequence behind tasks.id may hand out.
MaxTasks == 2

\* The clients, each an HTTP connection carrying one request at a time.
Clients == {"c1", "c2"}

(***************************************************************************)
(* JavaScript values                                                       *)
(***************************************************************************)
JsUndefined == [type |-> "undefined", val |-> ""]
JsNull == [type |-> "null", val |-> ""]
JsString(s) == [type |-> "string", val |-> s]
JsNumber(s) == [type |-> "number", val |-> s]
JsBoolean(s) == [type |-> "boolean", val |-> s]
JsTrue == JsBoolean("true")
JsFalse == JsBoolean("false")

\* ToBoolean of a JavaScript value, as used by the ! operator.
Truthy(v) ==
    ~ \/ v.type \in {"undefined", "null"}
      \/ v.type = "string" /\ v.val = ""
      \/ v.type = "number" /\ v.val = "0"
      \/ v.type = "boolean" /\ v.val = "false"

DecimalText == <<"1", "2", "3", "4", "5", "6", "7", "8", "9">>
IdText(n) == DecimalText[n]

(***************************************************************************)
(* The database: parameters and columns                                    *)
(***************************************************************************)
\* A statement parameter as the driver sends it: undefined and null are
\* sent as NULL, everything else as its text.
PgParam(v) == [null |-> v.type \in {"undefined", "null"}, text |-> v.val]

\* integer column input
IsIntText(t) == t = "0" \/ \E i \in 1..Len(DecimalText) : DecimalText[i] = t
\* boolean column input
BoolTrueText == {"true", "t", "yes", "y", "on", "1"}
BoolFalseText == {"false", "f", "no", "n", "off", "0"}
IsBoolText(t) == t \in BoolTrueText \cup BoolFalseText
BoolIn(p) == IF p.null THEN JsNull
             ELSE IF p.text \in BoolTrueText THEN JsTrue ELSE JsFalse
TextIn(p) == IF p.null THEN JsNull ELSE JsString(p.text)
IntIn(p) == IF p.null THEN JsNull ELSE JsNumber(p.text)

\* tasks.is_completed: boolean, default false
DefaultIsCompleted == JsFalse
\* tasks.id: generated from a sequence
NextVal(n) == JsNumber(IdText(n))

\* What pool.query resolves to, or the error it rejects with ("" = none).
Resolved(rows, table) == [error |-> "", rows |-> rows, table |-> table]
Rejected(kind, table) == [error |-> kind, rows |-> {}, table |-> table]

\* Failures of the connection or the server, independent of the statement.
DbFailures == {"connectivity", "timeout"}
DbOutcomes == {"ok"} \cup DbFailures

\* pool.query: runs the statement, or rejects with the failure.  A failure
\* comes before the statement reaches the database, or after the database
\* ran it (ran): then its effect on the table is there, the reply is not.
PoolQuery(fail, ran, table, result) ==
    IF fail = "ok" THEN result
    ELSE IF ran /\ result.error = "" THEN Rejected(fail, result.table)
    ELSE Rejected(fail, table)

(***************************************************************************)
(* The four statements                                                     *)
(***************************************************************************)
\* SELECT NOW()
SelectNow(table, now) == Resolved({now}, table)

\* SELECT * FROM tasks WHERE is_completed = false
SelectTasksOpen(table) ==
    Resolved({r \in table : r.is_completed = JsFalse}, table)

\* SELECT * FROM tasks
SelectTasks(table) == Resolved(table, table)

\* const values = [description, title, user_id]
InsertValuesSwapped(body) == <<body.description, body.title, body.user_id>>

\* const values = [title, description, user_id]
InsertValues(body) == <<body.title, body.description, body.user_id>>

\* INSERT INTO tasks (title, description, user_id) VALUES ($1, $2, $3)
\* RETURNING *
InsertTask(table, n, values) ==
    LET title == PgParam(values[1])
        description == PgParam(values[2])
        user_id == PgParam(values[3])
        row == [id |-> NextVal(n),
                title |-> TextIn(title),
                description |-> TextIn(description),
                user_id |-> IntIn(user_id),
                is_completed |-> DefaultIsCompleted]
    IN  IF ~user_id.null /\ ~IsIntText(user_id.text)
        THEN Rejected("invalid_text", table)
        ELSE Resolved({row}, table \cup {row})

\* const values = [is_completed, id]
UpdateValues(body, id) == <<body.is_completed, id>>

\* UPDATE tasks SET is_completed = true WHERE id = $2 RETURNING *
UpdateTaskAlwaysTrue(table, values) ==
    LET is_completed == PgParam(values[1])
        id == PgParam(values[2])
        hit == {r \in table : r.id = IntIn(id)}
        new == {[r EXCEPT !.is_completed = JsTrue] : r \in hit}
    IN  IF \/ ~id.null /\ ~IsIntText(id.text)
           \/ ~is_completed.null /\ ~IsBoolText(is_completed.text)
        THEN Rejected("invalid_text", table)
        ELSE Resolved(new, (table \ hit) \cup new)

\* UPDATE tasks SET is_completed = $1 RETURNING *
UpdateTaskNoWhere(table, values) ==
    LET is_completed == PgParam(values[1])
        id == PgParam(values[2])
        new == {[r EXCEPT !.is_completed = BoolIn(is_completed)] : r \in table}
    IN  IF \/ ~id.null /\ ~IsIntText(id.text)
           \/ ~is_completed.null /\ ~IsBoolText(is_completed.text)
        THEN Rejected("invalid_text", table)
        ELSE Resolved(new, new)

\* UPDATE tasks SET is_completed = $1 WHERE id = $2 RETURNING *
UpdateTask(table, values) ==
    LET is_completed == PgParam(values[1])
        id == PgParam(values[2])
        hit == {r \in table : r.id = IntIn(id)}
        new == {[r EXCEPT !.is_completed = BoolIn(is_completed)] : r \in hit}
    IN  IF \/ ~id.null /\ ~IsIntText(id.text)
           \/ ~is_completed.null /\ ~IsBoolText(is_completed.text)
        THEN Rejected("invalid_text", table)
        ELSE Resolved(new, (table \ hit) \cup new)

\* DELETE FROM tasks RETURNING *
DeleteTaskNoWhere(table, values) ==
    LET id == PgParam(values[1])
    IN  IF ~id.null /\ ~IsIntText(id.text)
        THEN Rejected("invalid_text", table)
        ELSE Resolved(table, {})

\* DELETE FROM tasks WHERE id = $1 RETURNING *
DeleteTask(table, values) ==
    LET id == PgParam(values[1])
        hit == {r \in table : r.id = IntIn(id)}
    IN  IF ~id.null /\ ~IsIntText(id.text)
        THEN Rejected("invalid_text", table)
        ELSE Resolved(hit, table \ hit)

(***************************************************************************)
(* Requests and responses                                                  *)
(***************************************************************************)
EmptyBody == [title |-> JsUndefined, description |-> JsUndefined,
              user_id |-> JsUndefined, is_completed |-> JsUndefined]
Request(method, path, id, body) ==
    [method |-> method, path |-> path, id |-> id, body |-> body]

NoResponse == [status |-> 0, kind |-> "", text |-> "", rows |-> {}, sent |-> 0]
\* res.status(s) ... .send / .json: one more response on the wire
Send(res, status, kind, text, rows) ==
    [status |-> status, kind |-> kind, text |-> text, rows |-> rows,
     sent |-> res.sent + 1]

\* res.json({ error: ... }), the status left at its default
ServerErrorAs200(res, text) == Send(res, 200, "error", text, {})
\* res.status(500).json({ error: ... })
ServerError(res, text) == Send(res, 500, "error", text, {})
\* res.status(400).json({ error: 'Tarea no encontrada' })
NotFoundAs400(res) == Send(res, 400, "error", "Tarea no encontrada", {})
\* res.status(404).json({ error: 'Tarea no encontrada' })
NotFound(res) == Send(res, 404, "error", "Tarea no encontrada", {})
\* res.status(400).json({ error: 'Faltan campos obligatorios' })
BadRequest(res) == Send(res, 400, "error", "Faltan campos obligatorios", {})

\* result.rows[0], as the one-row list the response carries
Row0(rows) == {CHOOSE r \in rows : TRUE}

\* What the continuation of a handler finds after its await: the error
\* pool.query rejected with ("" = none) or the rows it resolved with.
\* matched records whether a row had the id of the request when the
\* statement ran.
Outcome(q, matched) == [error |-> q.error, rows |-> q.rows, matched |-> matched]
NoOutcome == [error |-> "", rows |-> {}, matched |-> FALSE]

(***************************************************************************)
(* The handlers                                                            *)
(***************************************************************************)
\* The texts are the source's, written in ASCII (the greeting without its
\* punctuation and emoji, accented letters without the accent).
IsRoute(r, method, path) == r.method = method /\ r.path = path

\* if (!title && !user_id)
MissingRequiredBoth(title, user_id) == ~Truthy(title) /\ ~Truthy(user_id)
\* if (title === undefined || user_id === undefined)
MissingRequiredUndefined(title, user_id) ==
    title = JsUndefined \/ user_id = JsUndefined
\* if (!title || !user_id)
MissingRequired(title, user_id) == ~Truthy(title) \/ ~Truthy(user_id)

\* The statement a handler hands to pool.query, run on the table.
Statement(r, table, n, now) ==
    IF r.path = "/test-db" THEN SelectNow(table, now)
    ELSE IF IsRoute(r, "GET", "/tasks") THEN SelectTasks(table)
    ELSE IF IsRoute(r, "POST", "/tasks")
         THEN InsertTask(table, n, InsertValues(r.body))
    ELSE IF r.method = "PUT"
         THEN UpdateTask(table, UpdateValues(r.body, JsString(r.id)))
    ELSE DeleteTask(table, <<JsString(r.id)>>)

\* app.get('/'): res.send
GetRootAnswer == Send(NoResponse, 200, "text", "La API esta funcionando", {})

\* app.get('/test-db') after the await
TestDbAnswer(res) ==
    IF res.error = ""
    THEN Send(NoResponse, 200, "time", "Conexion exitosa a la Base de Datos",
              res.rows)
    ELSE ServerError(NoResponse, "Error al conectar a la BD")

\* app.get('/tasks') after the await
GetTasksAnswer(res) ==
    IF res.error = ""
    THEN Send(NoResponse, 200, "rows", "", res.rows)
    ELSE ServerError(NoResponse, "Error al obtener tareas")

\* app.post('/tasks') after the await
PostTasksAnswer(res) ==
    IF res.error = ""
    THEN Send(NoResponse, 201, "row", "", Row0(res.rows))
    ELSE ServerError(NoResponse, "Error al crear la tarea")

\* app.put('/tasks/:id') after the await
PutTaskAnswer(res) ==
    IF res.error = ""
    THEN IF Cardinality(res.rows) = 0
         THEN NotFound(NoResponse)
         ELSE Send(NoResponse, 200, "row", "", Row0(res.rows))
    ELSE ServerError(NoResponse, "Error al actualizar la tarea")

\* app.delete('/tasks/:id') after the await
DeleteTaskAnswer(res) ==
    IF res.error = ""
    THEN IF Cardinality(res.rows) = 0
         THEN NotFound(NoResponse)
         ELSE Send(NoResponse, 200, "deleted", "Tarea eliminada correctamente",
                   Row0(res.rows))
    ELSE ServerError(NoResponse, "Error al eliminar la tarea")

\* The continuation of the handler of r.
Continuation(r, res) ==
    IF r.path = "/test-db" THEN TestDbAnswer(res)
    ELSE IF IsRoute(r, "GET", "/tasks") THEN GetTasksAnswer(res)
    ELSE IF IsRoute(r, "POST", "/tasks") THEN PostTasksAnswer(res)
    ELSE IF r.method = "PUT" THEN PutTaskAnswer(res)
    ELSE DeleteTaskAnswer(res)

(***************************************************************************)
(* Inputs                                                                  *)
(***************************************************************************)
Completions == {JsUndefined, JsTrue, JsFalse, JsString("yes"), JsString("banana")}
\* Bodies of POST /tasks: complete ones, and ones where a required field
\* is absent, empty, zero or of the wrong type.
BaseBody == [EmptyBody EXCEPT !.title = JsString("a"), !.user_id = JsNumber("1")]
PostBodies ==
    {BaseBody,
     [BaseBody EXCEPT !.title = JsString("b"), !.description = JsString("5"),
                      !.is_completed = JsTrue],
     [BaseBody EXCEPT !.title = JsString("b"), !.description = JsNumber("5")]}
    \cup {[BaseBody EXCEPT !.title = t] : t \in {JsUndefined, JsString("")}}
    \cup {[BaseBody EXCEPT !.user_id = u] :
             u \in {JsUndefined, JsNumber("0"), JsString("x")}}
PutBodies == {[EmptyBody EXCEPT !.is_completed = c] : c \in Completions}
IdParams == {IdText(1), "abc"}
Times == {JsString("12:00"), JsString("12:01")}

(***************************************************************************)
(* State machine                                                           *)
(***************************************************************************)
NoRequest == Request("", "", "", EmptyBody)

\* The tasks table is in the database and outlives the server: index.js
\* issues no statement when it is loaded, so the server starts on the rows
\* that are there, none or some stored earlier.
StoredBody == [EmptyBody EXCEPT !.title = JsString("old"), !.user_id = JsNumber("7")]
InitTables == {{}, InsertTask({}, 1, InsertValues(StoredBody)).table}

\* No request is outstanding.  A row that is there was stored by an INSERT,
\* whose POST /tasks was answered 201 or not.
Init ==
    \E table \in InitTables :
        \E answered \in SUBSET {r.id : r \in table} :
            /\ tasks = table
            /\ nextId = Cardinality(table) + 1
            /\ phase = [c \in Clients |-> "idle"]
            /\ req = [c \in Clients |-> NoRequest]
            /\ outcome = [c \in Clients |-> NoOutcome]
            /\ resp = [c \in Clients |-> NoResponse]
            /\ created = answered
            /\ deleted = {}
            /\ inserted = {r.id : r \in table}
            /\ removed = {}

\* The handler of r runs up to await pool.query(...) and returns to the
\* event loop: the statement is with the pool, nothing is answered.
Await(c, r) ==
    /\ phase' = [phase EXCEPT ![c] = "awaiting"]
    /\ req' = [req EXCEPT ![c] = r]
    /\ outcome' = [outcome EXCEPT ![c] = NoOutcome]
    /\ resp' = [resp EXCEPT ![c] = NoResponse]
    /\ UNCHANGED <<tasks, nextId, created, deleted, inserted, removed>>

\* The handler of r answers without reaching a statement.
Reply(c, r, res) ==
    /\ req' = [req EXCEPT ![c] = r]
    /\ outcome' = [outcome EXCEPT ![c] = NoOutcome]
    /\ resp' = [resp EXCEPT ![c] = res]
    /\ UNCHANGED <<tasks, nextId, phase, created, deleted, inserted, removed>>

GetRoot ==
    \E c \in Clients :
        /\ phase[c] = "idle"
        /\ Reply(c, Request("GET", "/", "", EmptyBody), GetRootAnswer)

TestDb ==
    \E c \in Clients :
        /\ phase[c] = "idle"
        /\ Await(c, Request("GET", "/test-db", "", EmptyBody))

GetTasks ==
    \E c \in Clients :
        /\ phase[c] = "idle"
        /\ Await(c, Request("GET", "/tasks", "", EmptyBody))

\* INSERTs handed to the pool and not yet run.
InsertsAwaiting ==
    Cardinality({d \in Clients :
                    phase[d] = "awaiting" /\ IsRoute(req[d], "POST", "/tasks")})

PostTasks ==
    \E c \in Clients, body \in PostBodies :
        /\ phase[c] = "idle"
        /\ IF MissingRequired(body.title, body.user_id)
           THEN Reply(c, Request("POST", "/tasks", "", body),
                      BadRequest(NoResponse))
           ELSE /\ nextId + InsertsAwaiting <= MaxTasks
                /\ Await(c, Request("POST", "/tasks", "", body))

PutTask ==
    \E c \in Clients, id \in IdParams, body \in PutBodies :
        /\ phase[c] = "idle"
        /\ Await(c, Request("PUT", "/tasks/:id", id, body))

DeleteTaskById ==
    \E c \in Clients, id \in IdParams :
        /\ phase[c] = "idle"
        /\ Await(c, Request("DELETE", "/tasks/:id", id, EmptyBody))

\* The database runs the statement of c, or pool.query fails, before or
\* after the database ran it: the promise settles.
QueryRuns ==
    \E c \in Clients, fail \in DbOutcomes :
        \E ran \in (IF fail = "ok" THEN {TRUE} ELSE BOOLEAN),
           now \in (IF req[c].path = "/test-db" THEN Times ELSE {JsNull}) :
            LET q == PoolQuery(fail, ran, tasks,
                               Statement(req[c], tasks, nextId, now))
                matched == \E r \in tasks : r.id = JsNumber(req[c].id)
                new == {r.id : r \in q.table} \ {r.id : r \in tasks}
                gone == {r.id : r \in tasks} \ {r.id : r \in q.table}
            IN  /\ phase[c] = "awaiting"
                /\ phase' = [phase EXCEPT ![c] = "settled"]
                /\ outcome' = [outcome EXCEPT ![c] = Outcome(q, matched)]
                /\ tasks' = q.table
                /\ nextId' = IF new # {} THEN nextId + 1 ELSE nextId
                /\ inserted' = inserted \cup new
                /\ removed' = removed \cup gone
                /\ UNCHANGED <<req, resp, created, deleted>>

\* The continuation of the handler of c runs: the response is sent.
HandlerAnswers ==
    \E c \in Clients :
        LET res == Continuation(req[c], outcome[c])
        IN  /\ phase[c] = "settled"
            /\ phase' = [phase EXCEPT ![c] = "idle"]
            /\ resp' = [resp EXCEPT ![c] = res]
            /\ outcome' = [outcome EXCEPT ![c] = NoOutcome]
            /\ created' = IF res.status = 201
                          THEN created \cup {r.id : r \in res.rows} ELSE created
            /\ deleted' = IF res.kind = "deleted"
                          THEN deleted \cup {r.id : r \in res.rows} ELSE deleted
            /\ UNCHANGED <<tasks, nextId, req, inserted, removed>>

Next ==
    \/ GetRoot
    \/ TestDb
    \/ GetTasks
    \/ PostTasks
    \/ PutTask
    \/ DeleteTaskById
    \/ QueryRuns
    \/ HandlerAnswers

Spec == Init /\ [][Next]_vars

(***************************************************************************)
(* Properties                                                              *)
(***************************************************************************)
\* The steps of the request of client c.
Starts(c) ==
    /\ phase[c] = "idle"
    /\ \/ phase'[c] = "awaiting"
       \/ <<req'[c], resp'[c]>> # <<req[c], resp[c]>>
Runs(c) == phase[c] = "awaiting" /\ phase'[c] = "settled"
Answers(c) == phase[c] = "settled" /\ phase'[c] = "idle"
\* The rows of a table whose id is written as the text id.
Matching(table, id) == {r \in table : r.id.val = id}
\* A body field that is there at all.
Supplied(v) == v.type \notin {"undefined", "null"}
IsPost(r) == IsRoute(r, "POST", "/tasks")
IsPut(r) == IsRoute(r, "PUT", "/tasks/:id")
IsDelete(r) == IsRoute(r, "DELETE", "/tasks/:id")
IsGetTasks(r) == IsRoute(r, "GET", "/tasks")
Ids(rows) == {r.id : r \in rows}

\* C1: a POST /tasks whose body has no title or no user_id is answered 400
\* and inserts no row, whatever the other fields of the body are.
C1_Step ==
    \A c \in Clients :
        (Starts(c) /\ IsPost(req'[c])
           /\ (~Supplied(req'[c].body.title) \/ ~Supplied(req'[c].body.user_id)))
            => /\ phase'[c] = "idle"
               /\ resp'[c].status = 400
               /\ resp'[c].sent = 1
               /\ tasks' = tasks
               /\ nextId' = nextId
C1_MissingFieldIs400 == [][C1_Step]_vars
C1_Witness ==
    \E c \in Clients :
        /\ IsPost(req[c])
        /\ req[c].body.title = JsUndefined
        /\ req[c].body.user_id = JsNumber("1")
        /\ resp[c].status = 400
        /\ tasks # {}

\* The row a POST /tasks with this body is to store, apart from its id.
C2_IsRowOf(row, body) ==
    /\ row.title = body.title
    /\ row.description = (IF Supplied(body.description)
                          THEN body.description ELSE JsNull)
    /\ row.user_id = body.user_id
    /\ row.is_completed = JsFalse
\* What C2 promises of the steps of a POST /tasks of client c: it is not
\* answered before its INSERT; the INSERT, unless it fails, adds exactly one
\* row, with the supplied fields and an id no row had before; the answer,
\* unless the INSERT failed, is 201 with that row.
C2_Created(c) ==
    /\ Starts(c) => phase'[c] = "awaiting"
    /\ (Runs(c) /\ outcome'[c].error = "")
           => \E row \in outcome'[c].rows :
                  /\ outcome'[c].rows = {row}
                  /\ C2_IsRowOf(row, req[c].body)
                  /\ row.id \notin inserted
                  /\ row.id \notin Ids(tasks)
                  /\ row.id \notin created
                  /\ row \notin tasks
                  /\ tasks' = tasks \cup {row}
    /\ (Answers(c) /\ outcome[c].error = "")
           => /\ resp'[c].status = 201
              /\ resp'[c].rows = outcome[c].rows
              /\ \A row \in resp'[c].rows :
                     C2_IsRowOf(row, req[c].body) /\ row.id \notin created
\* C2 as stated: every POST /tasks whose body supplies both title and
\* user_id, the database not failing, is answered 201 with the new row, whose
\* fields are the supplied ones, is_completed false and id fresh; exactly
\* that row is added.
C2_Original_Step ==
    \A c \in Clients :
        (IsPost(req'[c]) /\ Supplied(req'[c].body.title)
                         /\ Supplied(req'[c].body.user_id))
            => C2_Created(c)
C2_Original == [][C2_Original_Step]_vars
\* C2 as amended: the same for every POST /tasks whose title is a non-empty
\* string, whose user_id is a number other than zero and whose description,
\* if there is one, is a string.
C2_Step ==
    \A c \in Clients :
        (IsPost(req'[c]) /\ req'[c].body.title.type = "string"
                         /\ req'[c].body.title.val # ""
                         /\ req'[c].body.user_id.type = "number"
                         /\ req'[c].body.user_id.val # "0"
                         /\ req'[c].body.description.type
                                \in {"undefined", "null", "string"})
            => C2_Created(c)
C2_ValidPostIs201 == [][C2_Step]_vars
C2_Witness ==
    \E c \in Clients :
        /\ IsPost(req[c])
        /\ resp[c].status = 201
        /\ req[c].body.description = JsString("5")
        /\ deleted # {}
        /\ \E row \in resp[c].rows : row.description = JsString("5")

\* C3 as stated: a successful GET /tasks lists exactly the tasks created by
\* a successful POST and not since removed by a successful DELETE.
C3_Original_Step ==
    \A c \in Clients :
        (Answers(c) /\ IsGetTasks(req[c]) /\ resp'[c].status = 200)
            => Ids(resp'[c].rows) = created' \ deleted'
C3_Original == [][C3_Original_Step]_vars
\* C3 as amended: a successful GET /tasks lists exactly the rows the table
\* holds when its SELECT runs, which are the tasks an INSERT has stored and
\* no DELETE has removed by then: every task whose POST has been answered
\* 201 is listed unless a DELETE has removed it, and no task is listed whose
\* DELETE has been answered 200.
C3_Step ==
    \A c \in Clients :
        /\ (Runs(c) /\ IsGetTasks(req[c]) /\ outcome'[c].error = "")
               => /\ outcome'[c].rows = tasks
                  /\ tasks' = tasks
                  /\ Ids(outcome'[c].rows) = inserted \ removed
                  /\ (created \ removed) \subseteq Ids(outcome'[c].rows)
                  /\ Ids(outcome'[c].rows) \cap deleted = {}
                  /\ Cardinality(outcome'[c].rows)
                         = Cardinality(inserted \ removed)
        /\ (Answers(c) /\ IsGetTasks(req[c]) /\ outcome[c].error = "")
               => /\ resp'[c].status = 200
                  /\ resp'[c].rows = outcome[c].rows
C3_GetListsTableAtSelect == [][C3_Step]_vars
C3_Witness ==
    \E c \in Clients :
        /\ IsGetTasks(req[c]) /\ resp[c].status = 200
        /\ resp[c].rows # {}
        /\ deleted # {}
        /\ Ids(resp[c].rows) # created \ deleted

\* What C4 promises of the steps of the request of client c.
C4_NotFound(c) ==
    /\ (Runs(c) /\ Matching(tasks, req[c].id) = {}) => tasks' = tasks
    /\ (Answers(c) /\ ~outcome[c].matched) => resp'[c].status = 404
\* C4 as stated: every PUT or DELETE /tasks/:id whose id matches no row of
\* the table, an already deleted id included, is answered 404 and leaves the
\* table unchanged.
C4_Original_Step ==
    \A c \in Clients :
        (IsPut(req[c]) \/ IsDelete(req[c])) => C4_NotFound(c)
C4_Original == [][C4_Original_Step]_vars
\* C4 as amended: the same for every such request whose database statement
\* does not fail.
C4_Step ==
    \A c \in Clients :
        ((IsPut(req[c]) \/ IsDelete(req[c]))
           /\ (Runs(c) => outcome'[c].error = "")
           /\ (Answers(c) => outcome[c].error = ""))
            => C4_NotFound(c)
C4_UnknownIdIs404 == [][C4_Step]_vars
C4_Witness ==
    \E c \in Clients :
        /\ IsDelete(req[c])
        /\ resp[c].status = 404
        /\ JsNumber(req[c].id) \in deleted
        /\ tasks # {}

\* The UPDATE of client c sets the is_completed of the row matching :id to
\* value, and the answer is 200 with the row as the UPDATE left it.
C5_Updated(c, value) ==
    /\ (Runs(c) /\ Matching(tasks, req[c].id) # {})
           => \E old \in Matching(tasks, req[c].id) :
                  LET row == [old EXCEPT !.is_completed = value]
                  IN  /\ outcome'[c].rows = {row}
                      /\ Matching(tasks', req[c].id) = {row}
    /\ (Answers(c) /\ outcome[c].matched)
           => /\ resp'[c].status = 200
              /\ resp'[c].rows = outcome[c].rows
              /\ \A row \in resp'[c].rows : row.is_completed = value
\* C5 as stated: every PUT /tasks/:id whose id matches an existing row sets
\* the row's is_completed to the value given in the body and is answered 200
\* with the row as it is after the update.
C5_Original_Step ==
    \A c \in Clients :
        IsPut(req[c]) => C5_Updated(c, req[c].body.is_completed)
C5_Original == [][C5_Original_Step]_vars
\* C5 as amended: the same for every such PUT whose body gives is_completed
\* as true or false and whose database statement does not fail.
C5_Step ==
    \A c \in Clients :
        (IsPut(req[c])
           /\ req[c].body.is_completed \in {JsTrue, JsFalse}
           /\ (Runs(c) => outcome'[c].error = "")
           /\ (Answers(c) => outcome[c].error = ""))
            => C5_Updated(c, req[c].body.is_completed)
C5_PutSetsIsCompleted == [][C5_Step]_vars
C5_Witness ==
    \E c \in Clients :
        /\ IsPut(req[c])
        /\ req[c].body.is_completed = JsFalse
        /\ resp[c].status = 200
        /\ \E row \in resp[c].rows : row.is_completed = JsFalse /\ row \in tasks
        /\ Cardinality(tasks) = 2

\* The DELETE of client c removes the row matching :id and nothing else,
\* and the answer is the confirmation with that row.
C6_Deleted(c) ==
    /\ (Runs(c) /\ Matching(tasks, req[c].id) # {})
           => \E old \in Matching(tasks, req[c].id) :
                  /\ outcome'[c].rows = {old}
                  /\ tasks' = tasks \ {old}
    /\ (Answers(c) /\ outcome[c].matched)
           => /\ resp'[c].status = 200
              /\ resp'[c].kind = "deleted"
              /\ resp'[c].text = "Tarea eliminada correctamente"
              /\ resp'[c].rows = outcome[c].rows
              /\ Ids(resp'[c].rows) = {JsNumber(req[c].id)}
\* No id whose DELETE has run is in the table again, and no GET /tasks whose
\* SELECT runs after a DELETE was answered lists the deleted id.
C6_Gone ==
    /\ \A r \in tasks' : r.id \notin removed' /\ r.id \notin deleted'
    /\ \A c \in Clients :
           (Runs(c) /\ IsGetTasks(req[c]))
               => \A r \in outcome'[c].rows : r.id \notin deleted
\* C6 as stated: every DELETE /tasks/:id whose id matches an existing row is
\* answered with a success carrying the confirmation message and the deleted
\* row, removes exactly that row, and no later GET /tasks lists that id.
C6_Original_Step ==
    /\ \A c \in Clients : IsDelete(req[c]) => C6_Deleted(c)
    /\ C6_Gone
C6_Original == [][C6_Original_Step]_vars
\* C6 as amended: the same for every such DELETE whose database statement
\* does not fail.
C6_Step ==
    /\ \A c \in Clients :
           (IsDelete(req[c])
              /\ (Runs(c) => outcome'[c].error = "")
              /\ (Answers(c) => outcome[c].error = ""))
               => C6_Deleted(c)
    /\ C6_Gone
C6_DeleteRemovesRow == [][C6_Step]_vars
C6_Witness ==
    \E c \in Clients :
        /\ IsDelete(req[c])
        /\ resp[c].kind = "deleted"
        /\ \E old \in resp[c].rows : old.id \in deleted /\ old.is_completed = JsTrue
        /\ tasks # {}

\* C7: every row of the tasks table has a non-empty title and a user_id
\* that is not null.
C7_RequiredFieldsPresent ==
    \A r \in tasks :
        /\ r.title.type = "string"
        /\ r.title.val # ""
        /\ r.user_id # JsNull
C7_Witness ==
    /\ tasks # {}
    /\ \E c \in Clients :
           /\ IsPost(req[c])
           /\ req[c].body.title = JsString("")
           /\ resp[c].status = 400

\* The error text of each route.
C8_Text(r) ==
    IF r.path = "/test-db" THEN "Error al conectar a la BD"
    ELSE IF IsGetTasks(r) THEN "Error al obtener tareas"
    ELSE IF IsPost(r) THEN "Error al crear la tarea"
    ELSE IF IsPut(r) THEN "Error al actualizar la tarea"
    ELSE "Error al eliminar la tarea"
\* The answer to a request whose pool.query rejected: one response, 500
\* with the route's fixed error body.
C8_Answer(c) ==
    (Answers(c) /\ outcome[c].error # "")
        => /\ resp'[c] = [status |-> 500, kind |-> "error",
                          text |-> C8_Text(req[c]), rows |-> {}, sent |-> 1]
           /\ req[c].path \in {"/test-db", "/tasks", "/tasks/:id"}
           /\ tasks' = tasks
\* C8 as stated: a request whose database statement fails, whatever the
\* failure, is answered once, with status 500 and the route's fixed error
\* body, and leaves the table unchanged.
C8_Original_Step ==
    \A c \in Clients :
        /\ (Runs(c) /\ outcome'[c].error # "")
               => /\ tasks' = tasks
                  /\ resp'[c].sent = 0
        /\ C8_Answer(c)
C8_Step ==
    \A c \in Clients :
        /\ (Runs(c) /\ outcome'[c].error # "")
               => /\ \/ tasks' = tasks
                     \/ \E now \in Times :
                            LET q == Statement(req[c], tasks, nextId, now)
                            IN  q.error = "" /\ tasks' = q.table
                  /\ outcome'[c].error \notin DbFailures => tasks' = tasks
                  /\ resp'[c].sent = 0
        /\ C8_Answer(c)
C9_IsCompletedBoolean ==
    \A r \in tasks : r.is_completed \in {JsTrue, JsFalse}

\* C10: while a task exists its id, title, description and user_id do not
\* change: the GET routes change no row, POST and DELETE change no field of
\* another row, and PUT changes the is_completed of the row matching :id
\* and nothing else.
C10_Step ==
    /\ \A r \in tasks, q \in tasks' :
           r.id = q.id => /\ q.title = r.title
                          /\ q.description = r.description
                          /\ q.user_id = r.user_id
    /\ tasks' # tasks
           => \E c \in Clients : Runs(c) /\ req[c].method # "GET"
    /\ \A c \in Clients :
           /\ (Runs(c) /\ IsPost(req[c])) => tasks \subseteq tasks'
           /\ (Runs(c) /\ IsDelete(req[c]))
                  => /\ tasks' \subseteq tasks
                     /\ \A r \in tasks : r.id.val # req[c].id => r \in tasks'
           /\ (Runs(c) /\ IsPut(req[c]))
                  => /\ Ids(tasks') = Ids(tasks)
                     /\ \A r \in tasks : r.id.val # req[c].id => r \in tasks'
C10_OnlyIsCompletedChanges == [][C10_Step]_vars
C10_Witness ==
    \E c \in Clients :
        /\ IsPut(req[c])
        /\ resp[c].status = 200
        /\ Cardinality(tasks) = 2
        /\ \E row \in resp[c].rows, r \in tasks :
               /\ row.is_completed = JsTrue
               /\ r.is_completed = JsFalse
               /\ r.title # row.title

====
